---- MODULE Spec2Model ----
(***************************************************************************)
(* A model of the Rare_Fruit_First robot of src/mybot.js (lines 95-581):   *)
(* the grid geometry, the dominance graph builder with its refinement      *)
(* cache, the path enumerator, the path selector and the per-turn planner, *)
(* driven by a host that applies the returned moves and by another party   *)
(* that removes fruit between turns.                                       *)
(*                                                                         *)
(* A point is the pair <<column, row>> (the code's two-element array).     *)
(* A JavaScript object whose keys are enumerated is the record             *)
(* [keys, val]: keys in insertion order, val the mapping.  A point used as *)
(* a property name is coerced to the string "c,r"; the model writes that   *)
(* string as the sequence <<c, r>> of its numbers, and the cache key       *)
(* "ec,er,c1,r1,c2,r2,..." as the flat sequence of its numbers.            *)
(***************************************************************************)
EXTENDS Integers, Sequences, FiniteSets, TLC

(* ------------------------------ bounds --------------------------------- *)
\* WIDTH and HEIGHT of the host's board (columns, rows).
Width == 3
Height == 2
\* Number of fruit types on a board (fruit types are 1..NTypes).
NTypes == 2
\* Largest number of fruit cells on a level.
MaxFruit == 4
\* Largest number of candidate waypoints handed to possible_paths directly.
MaxNodes == 3

Cells == (0..(Width - 1)) \X (0..(Height - 1))
Types == 1..NTypes

\* The cells in the order of board.forEach / column.forEach (column major).
CellAt(i) == <<(i - 1) \div Height, (i - 1) % Height>>
CellSeq == [i \in 1..(Width * Height) |-> CellAt(i)]

Range(s) == {s[i] : i \in DOMAIN s}
Last(s) == s[Len(s)]

(* ------------------------- JavaScript objects -------------------------- *)
ObjEmpty == [keys |-> <<>>, val |-> <<>>]
ObjHas(o, k) == \E i \in DOMAIN o.keys : o.keys[i] = k
ObjGet(o, k) == o.val[CHOOSE i \in DOMAIN o.keys : o.keys[i] = k]
\* o[k] = v: a new key is appended to the key order, an old one keeps its place.
ObjSet(o, k, v) ==
  IF ObjHas(o, k)
  THEN [keys |-> o.keys,
        val |-> [i \in DOMAIN o.keys |-> IF o.keys[i] = k THEN v ELSE o.val[i]]]
  ELSE [keys |-> Append(o.keys, k), val |-> Append(o.val, v)]
Object_keys(o) == o.keys

(* ------------------------- coordinate_functions ------------------------ *)
abs(x) == IF x < 0 THEN -x ELSE x

manhattan_metric(from, to) == abs(from[1] - to[1]) + abs(from[2] - to[2])

\* The mutant of box_coordinates_from_endpoints that rejects a single point.
box_rejecting_single_point(start, end) ==
  [threw |-> (start = end), left |-> start, right |-> end]

\* The mutant of box_coordinates_from_endpoints whose box has the columns of the
\* two points and every row of the grid.
box_of_every_row(start, end) ==
  [threw |-> FALSE,
   left |-> <<IF start[1] < end[1] THEN start[1] ELSE end[1], 0>>,
   right |-> <<IF start[1] < end[1] THEN end[1] ELSE start[1], Height - 1>>]

\* The mutant of box_coordinates_from_endpoints that orders the two points by
\* column, then by row, and shifts neither.
box_of_ordered_endpoints(start, end) ==
  IF start[1] < end[1] \/ (start[1] = end[1] /\ start[2] <= end[2])
  THEN [threw |-> FALSE, left |-> start, right |-> end]
  ELSE [threw |-> FALSE, left |-> end, right |-> start]

\* threw is the outcome "an exception reached the caller"; the code has no
\* throw statement and no operation that can fail on two points.
box_coordinates_from_endpoints(start, end) ==
  LET col_delta == end[1] - start[1]
      row_delta == end[2] - start[2]
      orientation == col_delta * row_delta
      shifted_start == <<start[1] + col_delta, start[2]>>
      shifted_end == <<end[1] - col_delta, end[2]>>
  IN IF orientation = 0
     THEN IF col_delta = 0
          THEN IF row_delta > 0
               THEN [threw |-> FALSE, left |-> start, right |-> end]
               ELSE [threw |-> FALSE, left |-> end, right |-> start]
          ELSE IF col_delta > 0
               THEN [threw |-> FALSE, left |-> start, right |-> end]
               ELSE [threw |-> FALSE, left |-> end, right |-> start]
     ELSE IF orientation > 0
     THEN IF col_delta > 0
          THEN [threw |-> FALSE, left |-> start, right |-> end]
          ELSE [threw |-> FALSE, left |-> end, right |-> start]
     ELSE IF col_delta < 0
          THEN [threw |-> FALSE, left |-> shifted_start, right |-> shifted_end]
          ELSE [threw |-> FALSE, left |-> shifted_end, right |-> shifted_start]

\* An argument that was not passed.
Undefined == <<>>

\* The mutant of nodes_in_box whose right column limit is exclusive.
nodes_in_box_right_open(box_coords, nodes, extra_filter) ==
  SelectSeq(nodes,
    LAMBDA node : /\ node[1] >= box_coords.left[1] /\ node[1] < box_coords.right[1]
                  /\ node[2] >= box_coords.left[2] /\ node[2] <= box_coords.right[2]
                  /\ (extra_filter = Undefined \/ extra_filter[node]))

\* extra_filter, a function of the code, is a function from the grid points to
\* the booleans, or Undefined: then every node passes it.
nodes_in_box(box_coords, nodes, extra_filter) ==
  LET left_col_limit == box_coords.left[1]
      right_col_limit == box_coords.right[1]
      top_row_limit == box_coords.left[2]
      bottom_row_limit == box_coords.right[2]
      keep(node) ==
        IF node[1] >= left_col_limit /\ node[1] <= right_col_limit
        THEN IF node[2] >= top_row_limit /\ node[2] <= bottom_row_limit
             THEN (IF extra_filter = Undefined THEN TRUE ELSE extra_filter[node])
             ELSE FALSE
        ELSE FALSE
  IN SelectSeq(nodes, keep)

(* --------------------------- path_construction ------------------------- *)
\* for (var k in b) a[k] = b[k]
RECURSIVE merge_from(_, _, _)
merge_from(a, b, i) ==
  IF i > Len(b.keys) THEN a
  ELSE merge_from(ObjSet(a, b.keys[i], b.val[i]), b, i + 1)

merge(a, b) == merge_from(a, b, 1)

\* The mutant of refined_nodes_of that checks the column limits only.
refined_nodes_by_column(end, nodes, node) ==
  SelectSeq(nodes,
    LAMBDA n : /\ n[1] >= box_coordinates_from_endpoints(node, end).left[1]
               /\ n[1] <= box_coordinates_from_endpoints(node, end).right[1]
               /\ (n[1] # node[1] \/ n[2] # node[2]))

\* The candidates other than node inside the box from node to end.
refined_nodes_of(end, nodes, node) ==
  nodes_in_box(box_coordinates_from_endpoints(node, end), nodes,
               [n \in Cells |-> n[1] # node[1] \/ n[2] # node[2]])

\* nodes.forEach of refine, from the i-th node on; an exception of
\* box_coordinates_from_endpoints ends the loop and reaches the caller.
RECURSIVE refine_from(_, _, _, _)

\* The body of the loop for one node, refined_nodes being its candidates.
refine_node(end, nodes, i, acc, box_coords, refined_nodes) ==
  IF box_coords.threw
  THEN [acc EXCEPT !.threw = TRUE]
  ELSE IF Len(refined_nodes) > 0
  THEN refine_from(end, nodes, i + 1,
         [threw |-> FALSE,
          reachable_in_two_steps |->
            acc.reachable_in_two_steps \cup Range(refined_nodes),
          refined_graph |-> ObjSet(acc.refined_graph, nodes[i], refined_nodes)])
  ELSE refine_from(end, nodes, i + 1, acc)

refine_from(end, nodes, i, acc) ==
  IF i > Len(nodes) THEN acc
  ELSE refine_node(end, nodes, i, acc,
         box_coordinates_from_endpoints(nodes[i], end),
         refined_nodes_of(end, nodes, nodes[i]))

refine(end, nodes) ==
  refine_from(end, nodes, 1,
    [threw |-> FALSE, reachable_in_two_steps |-> {}, refined_graph |-> ObjEmpty])

\* The property name [end, reachable_nodes] coerced to a string: the numbers of
\* end and of every node, joined by commas.
RECURSIVE flatten(_)
flatten(nodes) == IF nodes = <<>> THEN <<>> ELSE Head(nodes) \o flatten(Tail(nodes))

\* The mutant of cache_key that leaves end out of the key.
cache_key_of_nodes(end, reachable_nodes) == flatten(reachable_nodes)

cache_key(end, reachable_nodes) == end \o flatten(reachable_nodes)

EmptyCache == <<>>

\* The mutant of refinement_step_data that filters nothing out.
refinement_step_unfiltered(reachable_nodes, refinement) ==
  [filtered_nodes |-> reachable_nodes, graph |-> refinement.refined_graph]

\* single_refinement_step past the cache: refinement is what refine returned.
refinement_step_data(reachable_nodes, refinement) ==
  [filtered_nodes |->
     SelectSeq(reachable_nodes,
               LAMBDA node : node \notin refinement.reachable_in_two_steps),
   graph |-> refinement.refined_graph]

refinement_step_stored(key, cache, threw, refined_data) ==
  IF threw
  THEN [threw |-> TRUE, hit |-> FALSE, key |-> key,
        data |-> refined_data, cache |-> cache]
  ELSE [threw |-> FALSE, hit |-> FALSE, key |-> key,
        data |-> refined_data, cache |-> (key :> refined_data) @@ cache]

refinement_step_computed(key, cache, reachable_nodes, refinement) ==
  refinement_step_stored(key, cache, refinement.threw,
                         refinement_step_data(reachable_nodes, refinement))

single_refinement_step_keyed(end, reachable_nodes, cache, key) ==
  IF key \in DOMAIN cache
  THEN [threw |-> FALSE, hit |-> TRUE, key |-> key,
        data |-> cache[key], cache |-> cache]
  ELSE refinement_step_computed(key, cache, reachable_nodes,
                                refine(end, reachable_nodes))

\* single_refinement_step_cache is passed in and handed back; hit tells whether
\* the result was read from it.
single_refinement_step(end, reachable_nodes, cache) ==
  single_refinement_step_keyed(end, reachable_nodes, cache,
                               cache_key(end, reachable_nodes))

\* The mutant of push_end that forgets to add the end point.
push_end_forgotten(end, nodes) == nodes

\* if nodes does not include the end point then we need to add it
push_end(end, nodes) ==
  IF \E i \in DOMAIN nodes : nodes[i][1] = end[1] /\ nodes[i][2] = end[2]
  THEN nodes
  ELSE Append(nodes, end)

\* .forEach(function (graph) { this.merge(initial_graph, graph); })
RECURSIVE merge_each(_, _, _)
merge_each(initial_graph, graphs, i) ==
  IF i > Len(graphs) THEN initial_graph
  ELSE merge_each(merge(initial_graph, graphs[i]), graphs, i + 1)

\* The engine's call stack is finite, and a recursion that never ends leaves
\* the call as a RangeError.  On this grid a recursion that ends is at most
\* Width * Height calls deep: every nested call of construct_restricted_paths
\* that ends works on fewer candidates than its caller, and the partial paths of
\* the depth-th nested call of extract_paths have depth points, which are
\* distinct unless the path runs through a cycle of the graph (and then every
\* extension of it needs extension again).  A deeper call is one of a recursion
\* that never ends.
StackDepth == Width * Height

\* construct_restricted_paths returns [threw, graph, cache, hits]: the graph, the
\* cache after the call and the cache keys that were read during it; threw is
\* "none" when it returns.  depth counts the nested calls.
RECURSIVE construct_restricted_paths(_, _, _, _, _)

\* One call of need_further_refinement.map(...): sub is what the nested call
\* returned, acc the graphs returned so far and the cache as the calls left it.
construct_collect(acc, sub) ==
  [threw |-> sub.threw, graphs |-> Append(acc.graphs, sub.graph),
   cache |-> sub.cache, hits |-> acc.hits \cup sub.hits]

\* need_further_refinement.map(...), from the i-th key on.
RECURSIVE construct_each(_, _, _, _, _, _)
construct_each(need_further_refinement, i, end, refined_graph, acc, depth) ==
  IF i > Len(need_further_refinement) \/ acc.threw # "none" THEN acc
  ELSE construct_each(need_further_refinement, i + 1, end, refined_graph,
         construct_collect(acc,
           construct_restricted_paths(need_further_refinement[i], end,
             ObjGet(refined_graph, need_further_refinement[i]), acc.cache,
             depth + 1)),
         depth)

\* The recursive case: the pruned successors of start, then the merged graphs.
construct_merged(start, filtered_nodes, mapped) ==
  [threw |-> mapped.threw,
   graph |-> IF mapped.threw # "none" THEN ObjEmpty
             ELSE merge_each(ObjSet(ObjEmpty, start, filtered_nodes), mapped.graphs, 1),
   cache |-> mapped.cache, hits |-> mapped.hits]

\* construct_restricted_paths after single_refinement_step returned refined_data.
construct_refined(start, end, nodes, refined_data, depth) ==
  IF refined_data.threw
  THEN [threw |-> "Error", graph |-> ObjEmpty, cache |-> refined_data.cache,
        hits |-> {}]
  ELSE IF Len(Object_keys(refined_data.data.graph)) = 0
  THEN [threw |-> "none", graph |-> ObjSet(ObjEmpty, start, nodes),
        cache |-> refined_data.cache,
        hits |-> IF refined_data.hit THEN {refined_data.key} ELSE {}]
  ELSE construct_merged(start, refined_data.data.filtered_nodes,
         construct_each(Object_keys(refined_data.data.graph), 1, end,
           refined_data.data.graph,
           [threw |-> "none", graphs |-> <<>>, cache |-> refined_data.cache,
            hits |-> IF refined_data.hit THEN {refined_data.key} ELSE {}],
           depth))

\* construct_restricted_paths after the end point was added to nodes.
construct_pushed(start, end, nodes, cache, depth) ==
  construct_refined(start, end, nodes, single_refinement_step(end, nodes, cache),
                    depth)

construct_restricted_paths(start, end, nodes, cache, depth) ==
  IF depth > StackDepth
  THEN [threw |-> "RangeError", graph |-> ObjEmpty, cache |-> cache, hits |-> {}]
  ELSE construct_pushed(start, end, push_end(end, nodes), cache, depth)

\* The extensions of a partial path: the path itself, in a list, when the graph
\* has no entry for its last point.
extend_partial_path(partial_path, path_graph) ==
  IF ~ObjHas(path_graph, Last(partial_path))
  THEN <<partial_path>>
  ELSE LET possible_extensions == ObjGet(path_graph, Last(partial_path))
       IN [i \in DOMAIN possible_extensions |->
             Append(partial_path, possible_extensions[i])]

\* partial_paths.forEach of extract_paths, from the i-th path on.  extensions[0]
\* is undefined when the graph maps the last point to an empty list, and reading
\* its length throws a TypeError.
RECURSIVE extract_split(_, _, _, _)

extract_split_one(partial_paths, path_graph, i, acc, extensions) ==
  IF Len(extensions) = 0
  THEN [acc EXCEPT !.threw = TRUE]
  ELSE IF Len(extensions[1]) = Len(partial_paths[i])
  THEN extract_split(partial_paths, path_graph, i + 1,
         [acc EXCEPT !.done = Append(@, partial_paths[i])])
  ELSE extract_split(partial_paths, path_graph, i + 1,
         [acc EXCEPT !.need_extension = @ \o extensions])

extract_split(partial_paths, path_graph, i, acc) ==
  IF i > Len(partial_paths) \/ acc.threw THEN acc
  ELSE extract_split_one(partial_paths, path_graph, i, acc,
         extend_partial_path(partial_paths[i], path_graph))

\* The mutant of extract_concat that drops the paths finished at this level.
extract_concat_dropping_done(done, rest) == rest

\* done.concat(this.extract_paths(need_extension, path_graph))
extract_concat(done, rest) ==
  IF rest.threw # "none" THEN rest
  ELSE [threw |-> "none", paths |-> done \o rest.paths]

\* extract_paths returns [threw, paths]; threw is "none" when it returns.
RECURSIVE extract_paths(_, _, _)

extract_paths_split(path_graph, depth, split) ==
  IF split.threw THEN [threw |-> "TypeError", paths |-> <<>>]
  ELSE IF Len(split.need_extension) = 0
  THEN [threw |-> "none", paths |-> split.done]
  ELSE extract_concat(split.done,
                      extract_paths(split.need_extension, path_graph, depth + 1))

extract_paths(partial_paths, path_graph, depth) ==
  IF depth > StackDepth THEN [threw |-> "RangeError", paths |-> <<>>]
  ELSE extract_paths_split(path_graph, depth,
         extract_split(partial_paths, path_graph, 1,
           [threw |-> FALSE, need_extension |-> <<>>, done |-> <<>>]))

\* possible_paths returns [threw, paths, graph, cache, hits].
possible_paths_extracted(reachability_graph, extracted) ==
  [threw |-> extracted.threw, paths |-> extracted.paths,
   graph |-> reachability_graph.graph,
   cache |-> reachability_graph.cache, hits |-> reachability_graph.hits]

possible_paths_from(start, reachability_graph) ==
  IF reachability_graph.threw # "none"
  THEN [threw |-> reachability_graph.threw, paths |-> <<>>, graph |-> ObjEmpty,
        cache |-> reachability_graph.cache, hits |-> reachability_graph.hits]
  ELSE possible_paths_extracted(reachability_graph,
         extract_paths(<<<<start>>>>, reachability_graph.graph, 1))

possible_paths(start, end, nodes, cache) ==
  possible_paths_from(start, construct_restricted_paths(start, end, nodes, cache, 1))

(* ------------------------ common_strategy_methods ---------------------- *)
\* win_counts holds twice the code's value (0.5 + 0.5 * n is kept as 1 + n), so
\* that it stays an integer; the code only compares win counts with each other.
\* A fruit type without an entry in fruit_stash has the empty list, one without
\* a win count has 0, a node without a fruit mapping has 0.
NoStash == [t \in Types |-> <<>>]
NoWinCounts == [t \in Types |-> 0]
NoMapping == [c \in Cells |-> 0]

\* Array.prototype.sort by win count, stable: insertion from the left.
RECURSIVE sort_insert(_, _, _)
sort_insert(sorted, fruit, win_counts) ==
  IF sorted = <<>> THEN <<fruit>>
  ELSE IF win_counts[Last(sorted)] - win_counts[fruit] > 0
  THEN Append(sort_insert(SubSeq(sorted, 1, Len(sorted) - 1), fruit, win_counts),
              Last(sorted))
  ELSE Append(sorted, fruit)

RECURSIVE sort_from(_, _, _, _)
sort_from(fruits, i, sorted, win_counts) ==
  IF i > Len(fruits) THEN sorted
  ELSE sort_from(fruits, i + 1, sort_insert(sorted, fruits[i], win_counts), win_counts)

\* st is the strategy's [fruit_stash, fruits, win_counts, node_to_fruit_mapping].
sort_fruits(st) == [st EXCEPT !.fruits = sort_from(st.fruits, 1, <<>>, st.win_counts)]

\* The body of the scan of find_fruits_and_compute_win_counts for a fruit cell.
found_fruit(st, fruit_location, fruit_type) ==
  [fruit_stash |->
     [st.fruit_stash EXCEPT ![fruit_type] = Append(@, fruit_location)],
   fruits |-> IF st.fruit_stash[fruit_type] = <<>>
              THEN Append(st.fruits, fruit_type)
              ELSE st.fruits,
   win_counts |->
     [st.win_counts EXCEPT ![fruit_type] =
        IF st.fruit_stash[fruit_type] = <<>> THEN 2 ELSE @ + 1],
   node_to_fruit_mapping |->
     [st.node_to_fruit_mapping EXCEPT ![fruit_location] = fruit_type]]

\* board.forEach / column.forEach of find_fruits_and_compute_win_counts, from
\* the i-th cell on.
RECURSIVE find_fruits_from(_, _, _)
find_fruits_from(board, i, st) ==
  IF i > Len(CellSeq) THEN st
  ELSE IF board[CellSeq[i]] > 0
  THEN find_fruits_from(board, i + 1, found_fruit(st, CellSeq[i], board[CellSeq[i]]))
  ELSE find_fruits_from(board, i + 1, st)

find_fruits_and_compute_win_counts(board, st) ==
  sort_fruits(find_fruits_from(board, 1, st))

\* The body of fruits.filter of update_fruits for one fruit.
updated_fruit(st, fruit, updated_locations) ==
  [st EXCEPT !.fruit_stash[fruit] = updated_locations,
             !.fruits = IF Len(updated_locations) > 0 THEN Append(@, fruit) ELSE @]

\* fruits.filter of update_fruits, from the i-th fruit on.
RECURSIVE update_fruits_from(_, _, _, _)
update_fruits_from(board, fruits, i, st) ==
  IF i > Len(fruits) THEN st
  ELSE update_fruits_from(board, fruits, i + 1,
         updated_fruit(st, fruits[i],
           SelectSeq(st.fruit_stash[fruits[i]], LAMBDA loc : board[loc] > 0)))

update_fruits(board, st) ==
  sort_fruits(update_fruits_from(board, st.fruits, 1, [st EXCEPT !.fruits = <<>>]))

\* The mutant of calculate_move_direction that looks at the rows first.
calculate_move_rows_first(move_location, my_location) ==
  LET x_delta == move_location[1] - my_location[1]
      y_delta == move_location[2] - my_location[2]
  IN IF y_delta # 0 THEN (IF y_delta > 0 THEN "SOUTH" ELSE "NORTH")
     ELSE IF x_delta # 0 THEN (IF x_delta > 0 THEN "EAST" ELSE "WEST")
     ELSE "undefined"

\* The mutant of calculate_move_direction that takes the deltas the other way
\* round.
calculate_move_away(move_location, my_location) ==
  LET x_delta == my_location[1] - move_location[1]
      y_delta == my_location[2] - move_location[2]
  IN IF x_delta # 0 THEN (IF x_delta > 0 THEN "EAST" ELSE "WEST")
     ELSE IF y_delta # 0 THEN (IF y_delta > 0 THEN "SOUTH" ELSE "NORTH")
     ELSE "undefined"

calculate_move_direction(move_location, my_location) ==
  LET x_delta == move_location[1] - my_location[1]
      y_delta == move_location[2] - my_location[2]
  IN IF x_delta # 0 THEN (IF x_delta > 0 THEN "EAST" ELSE "WEST")
     ELSE IF y_delta # 0 THEN (IF y_delta > 0 THEN "SOUTH" ELSE "NORTH")
     ELSE "undefined"

init_or_update_fruit_locations(board, init, st) ==
  IF ~init THEN find_fruits_and_compute_win_counts(board, st)
  ELSE update_fruits(board, st)

(* ------------------------------- Planner ------------------------------- *)
\* The mutant of next_move that does not look for fruit on the head it removes.
next_move_without_take(path, board, current) ==
  IF path = <<>> THEN [move |-> "TypeError", path |-> path]
  ELSE IF path[1] = current
  THEN IF Tail(path) = <<>>
       THEN [move |-> "TypeError", path |-> Tail(path)]
       ELSE [move |-> calculate_move_direction(Tail(path)[1], current),
             path |-> Tail(path)]
  ELSE [move |-> calculate_move_direction(path[1], current), path |-> path]

\* The mutant of next_move that leaves the head on the path when it returns TAKE.
next_move_keeping_head(path, board, current) ==
  IF path = <<>> THEN [move |-> "TypeError", path |-> path]
  ELSE IF path[1] = current
  THEN IF board[path[1]] > 0
       THEN [move |-> "TAKE", path |-> path]
       ELSE IF Tail(path) = <<>>
       THEN [move |-> "TypeError", path |-> Tail(path)]
       ELSE [move |-> calculate_move_direction(Tail(path)[1], current),
             path |-> Tail(path)]
  ELSE [move |-> calculate_move_direction(path[1], current), path |-> path]

\* next_move returns [move, path]; move is one of the actions, "undefined" when
\* calculate_move_direction returns nothing, or "TypeError" when path[0] is read
\* from an empty path or handed, undefined, to calculate_move_direction.
next_move(path, board, current) ==
  IF path = <<>> THEN [move |-> "TypeError", path |-> path]
  ELSE IF path[1][1] = current[1] /\ path[1][2] = current[2]
  THEN IF board[path[1]] > 0
       THEN [move |-> "TAKE", path |-> Tail(path)]
       ELSE IF Tail(path) = <<>>
       THEN [move |-> "TypeError", path |-> Tail(path)]
       ELSE [move |-> calculate_move_direction(Tail(path)[1], current),
             path |-> Tail(path)]
  ELSE [move |-> calculate_move_direction(path[1], current), path |-> path]

(* --------------------------- Rare_Fruit_First -------------------------- *)
\* fruit_stash.fruits.reduce(function (acc, fruit) { return acc.concat(...) }, [])
RECURSIVE concat_stash(_, _, _)
concat_stash(fruits, fruit_stash, i) ==
  IF i > Len(fruits) THEN <<>>
  ELSE fruit_stash[fruits[i]] \o concat_stash(fruits, fruit_stash, i + 1)

get_paths_in_box(start, end, box_coords, all_fruit_locations, cache) ==
  IF box_coords.threw
  THEN [threw |-> "Error", paths |-> <<>>, graph |-> ObjEmpty,
        cache |-> cache, hits |-> {}]
  ELSE possible_paths(start, end,
         nodes_in_box(box_coords, all_fruit_locations,
                      [loc \in Cells |-> loc[1] # start[1] \/ loc[2] # start[2]]),
         cache)

get_paths(start, end, fruits, fruit_stash, cache) ==
  get_paths_in_box(start, end, box_coordinates_from_endpoints(start, end),
                   concat_stash(fruits, fruit_stash, 1), cache)

\* The number of nodes of a path that node_to_fruit_mapping maps to fruit.
fruit_count(path, fruit, node_to_fruit_mapping) ==
  Cardinality({i \in DOMAIN path : node_to_fruit_mapping[path[i]] = fruit})

\* The mutant of pick_best_path that reads one past the last path.
pick_best_path_past_the_end(paths, fruits, node_to_fruit_mapping) == <<>>

\* paths.map(...).sort(...) builds a new array of [path, fruit_count] pairs and
\* orders that array; the result is dropped and paths keeps its order, so
\* paths[0] is the first path enumerated (the empty list stands for undefined).
pick_best_path(paths, fruits, node_to_fruit_mapping) ==
  IF paths = <<>> THEN <<>> ELSE paths[1]

\* fruits.reduce(...) without an initial value, from the i-th fruit on: the
\* first fruit of least win count.
RECURSIVE reduce_rare(_, _, _, _)
reduce_rare(fruits, i, low_win_fruit, win_counts) ==
  IF i > Len(fruits) THEN low_win_fruit
  ELSE reduce_rare(fruits, i + 1,
         IF win_counts[low_win_fruit] <= win_counts[fruits[i]]
         THEN low_win_fruit ELSE fruits[i],
         win_counts)

\* The mutant of reduce_closest whose comparison is turned around.
RECURSIVE reduce_closest_turned(_, _, _, _)
reduce_closest_turned(locs, i, closest, my_position) ==
  IF i > Len(locs) THEN closest
  ELSE reduce_closest_turned(locs, i + 1,
         IF manhattan_metric(my_position, locs[i])
              >= manhattan_metric(my_position, closest)
         THEN locs[i] ELSE closest,
         my_position)

\* fruit_stash[rare_fruit].reduce(...), from the i-th location on: the last
\* location of least distance.
RECURSIVE reduce_closest(_, _, _, _)
reduce_closest(locs, i, closest, my_position) ==
  IF i > Len(locs) THEN closest
  ELSE reduce_closest(locs, i + 1,
         IF manhattan_metric(my_position, locs[i])
              <= manhattan_metric(my_position, closest)
         THEN locs[i] ELSE closest,
         my_position)

rare_fruit_closest_loc(st, my_position) ==
  reduce_closest(st.fruit_stash[reduce_rare(st.fruits, 2, st.fruits[1], st.win_counts)],
                 2,
                 st.fruit_stash[reduce_rare(st.fruits, 2, st.fruits[1],
                                            st.win_counts)][1],
                 my_position)

Moves == {"NORTH", "SOUTH", "EAST", "WEST", "TAKE", "PASS"}

\* make_move returns the strategy's state after the call and result: the action
\* returned, "undefined", or the exception that left the call.  replanned tells
\* whether the call went past the check of the plan; target, paths and plan are
\* the locals rare_fruit_closest_loc, paths and best_path.

\* return this.planner.next_move(...), nm being what next_move returns.
make_move_next(base, nm) == [base EXCEPT !.path = nm.path, !.result = nm.move]

\* make_move after get_paths returned (or threw).
make_move_planned(base, board, my_position, paths, best_path) ==
  IF paths.threw # "none"
  THEN [base EXCEPT !.result = paths.threw, !.cache = paths.cache,
                    !.hits = paths.hits]
  ELSE make_move_next(
         [base EXCEPT !.cache = paths.cache, !.hits = paths.hits,
                      !.paths = paths.paths, !.plan = best_path],
         next_move(best_path, board, my_position))

make_move_paths(base, board, my_position, paths) ==
  make_move_planned(base, board, my_position, paths,
    pick_best_path(paths.paths, base.fruits, base.node_to_fruit_mapping))

\* make_move past the check of the plan, the target chosen.
make_move_replan(base, board, my_position, closest_loc) ==
  make_move_paths([base EXCEPT !.replanned = TRUE, !.target = closest_loc],
    board, my_position,
    get_paths(my_position, closest_loc, base.fruits, base.fruit_stash, base.cache))

\* make_move after init_or_update_fruit_locations.  reduce of an empty array
\* without an initial value throws a TypeError.
make_move_updated(base, board, my_position) ==
  IF Len(base.path) > 0 /\ board[Last(base.path)] > 0
  THEN make_move_next(base, next_move(base.path, board, my_position))
  ELSE IF base.fruits = <<>>
  THEN [base EXCEPT !.result = "TypeError", !.replanned = TRUE]
  ELSE make_move_replan(base, board, my_position,
                        rare_fruit_closest_loc(base, my_position))

make_move_base(s, st) ==
  [init |-> TRUE, fruit_stash |-> st.fruit_stash, fruits |-> st.fruits,
   win_counts |-> st.win_counts,
   node_to_fruit_mapping |-> st.node_to_fruit_mapping,
   path |-> s.path, cache |-> s.cache, result |-> "undefined",
   replanned |-> FALSE, target |-> <<>>, paths |-> <<>>,
   plan |-> <<>>, hits |-> {}]

make_move(board, my_position, s) ==
  make_move_updated(
    make_move_base(s,
      init_or_update_fruit_locations(board, s.init,
        [fruit_stash |-> s.fruit_stash, fruits |-> s.fruits,
         win_counts |-> s.win_counts,
         node_to_fruit_mapping |-> s.node_to_fruit_mapping])),
    board, my_position)

\* The mutant of new_game_cache that keeps the cache of the episode before.
new_game_cache_kept(old_cache) == old_cache

\* path_construction.single_refinement_step_cache = {}
new_game_cache(old_cache) == EmptyCache

(* ------------------------------- state --------------------------------- *)
VARIABLES
  level,                  \* the host's level: the board and the robot's position at the start of a game
  board,                  \* get_board(): cell -> fruit type, 0 for an empty cell
  pos,                    \* <<get_my_x(), get_my_y()>>
  turn,                   \* "bot": make_move is called next; "host": its result is applied next
  result,                 \* what the last make_move returned or threw, "none" before the first
  init,                   \* strategy.init
  fruits,                 \* strategy.fruit_stash.fruits
  fruit_stash,            \* strategy.fruit_stash[fruit]
  win_counts,             \* strategy.win_counts (doubled)
  node_to_fruit_mapping,  \* strategy.node_to_fruit_mapping
  path,                   \* strategy.planner.path
  cache,                  \* path_construction.single_refinement_step_cache
  replanned,              \* history: the last make_move went past the check of the plan
  target,                 \* history: rare_fruit_closest_loc of the last make_move
  paths,                  \* history: paths of the last make_move
  plan,                   \* history: best_path of the last make_move
  hits,                   \* history: the cache keys the last make_move read
  stored,                 \* history: the cache keys stored since the last new_game
  played,                 \* history: new_game was called after a game that stored cache entries
  made_at,                \* history: the position at which the plan followed was made
  goal,                   \* history: the target for which the plan followed was made
  h_pc,                   \* direct calls: "off", "input", "box", "paths", "again", "in", "move"
  h_start,                \* direct calls: the arguments start, end, nodes
  h_end,
  h_nodes,
  h_box,                  \* direct calls: box_coordinates_from_endpoints(h_start, h_end)
  h_out,                  \* direct calls: possible_paths(h_start, h_end, h_nodes)
  h_filter,               \* direct calls: the argument extra_filter, "none" when not passed
  h_in,                   \* direct calls: nodes_in_box(h_box, h_nodes, h_filter)
  h_move,                 \* direct calls: calculate_move_direction(h_end, h_start)
  h_again                 \* direct calls: a second call of possible_paths, its arguments and result

game_vars == <<level, board, pos, turn, result, init, fruits, fruit_stash, win_counts,
               node_to_fruit_mapping, path, cache, replanned, target, paths, plan,
               hits, stored, played, made_at, goal>>
h_vars == <<h_pc, h_start, h_end, h_nodes, h_box, h_out, h_filter, h_in, h_move,
           h_again>>
vars == <<game_vars, h_vars>>

NoBox == [threw |-> FALSE, left |-> <<0, 0>>, right |-> <<0, 0>>]
NoOut == [threw |-> "none", paths |-> <<>>, graph |-> ObjEmpty,
          cache |-> EmptyCache, hits |-> {}]
NoAgain == [start |-> <<0, 0>>, end |-> <<0, 0>>, nodes |-> <<>>, out |-> NoOut]

(* --------------------------- the game: Spec ---------------------------- *)
\* The levels: at most MaxFruit fruit cells, each of a type in Types, and the
\* robot on any cell.
Boards ==
  UNION {{[c \in Cells |-> IF c \in F THEN ty[c] ELSE 0] : ty \in [F -> Types]} :
         F \in {S \in SUBSET Cells : Cardinality(S) <= MaxFruit}}

\* The state new_game leaves: create_strategy_instance(Rare_Fruit_First) and the
\* emptied cache, on the board and position the host starts the game with.
Fresh(old_cache) ==
  /\ board = level.board
  /\ pos = level.pos
  /\ turn = "bot"
  /\ result = "none"
  /\ init = FALSE
  /\ fruits = <<>>
  /\ fruit_stash = NoStash
  /\ win_counts = NoWinCounts
  /\ node_to_fruit_mapping = NoMapping
  /\ path = <<>>
  /\ cache = new_game_cache(old_cache)
  /\ replanned = FALSE
  /\ target = <<>>
  /\ paths = <<>>
  /\ plan = <<>>
  /\ hits = {}
  /\ stored = {}
  /\ played = FALSE
  /\ made_at = <<>>
  /\ goal = <<>>

HarnessOff ==
  /\ h_pc = "off"
  /\ h_start = <<0, 0>>
  /\ h_end = <<0, 0>>
  /\ h_nodes = <<>>
  /\ h_box = NoBox
  /\ h_out = NoOut
  /\ h_filter = "none"
  /\ h_in = <<>>
  /\ h_move = "none"
  /\ h_again = NoAgain

\* The script is loaded and the host has called new_game for the first game.
Init ==
  /\ level \in [board : Boards, pos : Cells]
  /\ Fresh(EmptyCache)
  /\ HarnessOff

\* The host starts the level again and calls new_game.
NewGame ==
  /\ level' = level
  /\ board' = level.board
  /\ pos' = level.pos
  /\ turn' = "bot"
  /\ result' = "none"
  /\ init' = FALSE
  /\ fruits' = <<>>
  /\ fruit_stash' = NoStash
  /\ win_counts' = NoWinCounts
  /\ node_to_fruit_mapping' = NoMapping
  /\ path' = <<>>
  /\ cache' = new_game_cache(cache)
  /\ replanned' = FALSE
  /\ target' = <<>>
  /\ paths' = <<>>
  /\ plan' = <<>>
  /\ hits' = {}
  /\ stored' = {}
  /\ played' = (played \/ stored # {})
  /\ made_at' = <<>>
  /\ goal' = <<>>
  /\ UNCHANGED h_vars

\* The host calls make_move and keeps what it returns.
MakeMove ==
  /\ turn = "bot"
  /\ result \in Moves \cup {"none"}
  /\ \E m \in {make_move(board, pos,
                [init |-> init, fruit_stash |-> fruit_stash, fruits |-> fruits,
                 win_counts |-> win_counts,
                 node_to_fruit_mapping |-> node_to_fruit_mapping,
                 path |-> path, cache |-> cache])} :
        /\ init' = m.init
        /\ fruits' = m.fruits
        /\ fruit_stash' = m.fruit_stash
        /\ win_counts' = m.win_counts
        /\ node_to_fruit_mapping' = m.node_to_fruit_mapping
        /\ path' = m.path
        /\ cache' = m.cache
        /\ result' = m.result
        /\ replanned' = m.replanned
        /\ target' = m.target
        /\ paths' = m.paths
        /\ plan' = m.plan
        /\ hits' = m.hits
        /\ stored' = stored \cup (DOMAIN m.cache \ DOMAIN cache)
        /\ made_at' = IF m.replanned /\ m.plan # <<>> THEN pos ELSE made_at
        /\ goal' = IF m.replanned /\ m.plan # <<>> THEN m.target ELSE goal
  /\ turn' = "host"
  /\ UNCHANGED <<level, board, pos, played, h_vars>>

\* The cell a move leads to.
Step(p, move) ==
  IF move = "EAST" THEN <<p[1] + 1, p[2]>>
  ELSE IF move = "WEST" THEN <<p[1] - 1, p[2]>>
  ELSE IF move = "SOUTH" THEN <<p[1], p[2] + 1>>
  ELSE IF move = "NORTH" THEN <<p[1], p[2] - 1>>
  ELSE p

\* The host applies the returned action: a move inside the grid moves the robot,
\* TAKE empties the robot's cell, PASS changes nothing.  After an exception or a
\* missing action the game does not go on.
HostApply ==
  /\ turn = "host"
  /\ result \in Moves
  /\ pos' = IF Step(pos, result) \in Cells THEN Step(pos, result) ELSE pos
  /\ board' = IF result = "TAKE" THEN [board EXCEPT ![pos] = 0] ELSE board
  /\ turn' = "bot"
  /\ UNCHANGED <<level, result, init, fruits, fruit_stash, win_counts,
                 node_to_fruit_mapping, path, cache, replanned, target, paths, plan,
                 hits, stored, played, made_at, goal, h_vars>>

\* Another party takes the fruit of a cell between two turns.
OtherTakes ==
  /\ turn = "bot"
  /\ \E c \in Cells :
       /\ board[c] > 0
       /\ board' = [board EXCEPT ![c] = 0]
  /\ UNCHANGED <<level, pos, turn, result, init, fruits, fruit_stash, win_counts,
                 node_to_fruit_mapping, path, cache, replanned, target, paths, plan,
                 hits, stored, played, made_at, goal, h_vars>>

Next == NewGame \/ MakeMove \/ HostApply \/ OtherTakes

Spec == Init /\ [][Next]_vars

(* ------------------- one game, nobody else: SpecLive ------------------- *)
\* The host calls make_move every turn and applies what it returns; no other
\* party takes fruit and the game is not started again.
NextLive == MakeMove \/ HostApply

\* It is the robot's turn and the host calls make_move: the steps of MakeMove,
\* seen by the turn alone.  make_move is defined on every state, so MakeMove is
\* enabled whenever this is, and no other step gives the turn to the host.
MakeMoveCalled ==
  /\ turn = "bot"
  /\ result \in Moves \cup {"none"}
  /\ turn' = "host"

\* The host never stops calling make_move on the robot's turn, nor applying the
\* action it got.
SpecLive ==
  Init /\ [][NextLive]_vars /\ WF_turn(MakeMoveCalled) /\ WF_vars(HostApply)

(* ----------------------- direct calls: SpecPaths ----------------------- *)
\* The lists of at most MaxNodes distinct points of a set.
NodeLists(S) ==
  {s \in UNION {[1..n -> S] : n \in 0..MaxNodes} :
     \A i, j \in DOMAIN s : i # j => s[i] # s[j]}

\* The points of the box of two points.
InBox(a, b) ==
  LET box_coords == box_coordinates_from_endpoints(a, b)
  IN {c \in Cells : Len(nodes_in_box(box_coords, <<c>>, [n \in Cells |-> TRUE])) = 1}

GameIdle ==
  /\ level = [board |-> [c \in Cells |-> 0], pos |-> <<0, 0>>]
  /\ Fresh(EmptyCache)

\* The arguments of a call: any two points and, as the code's comment on
\* construct_restricted_paths asks, candidates inside their box.
PathsInit ==
  /\ GameIdle
  /\ h_pc = "input"
  /\ h_start \in Cells
  /\ h_end \in Cells
  /\ h_nodes \in NodeLists(InBox(h_start, h_end))
  /\ h_box = NoBox
  /\ h_out = NoOut
  /\ h_filter = "none"
  /\ h_in = <<>>
  /\ h_move = "none"
  /\ h_again = NoAgain

CallBox ==
  /\ h_pc = "input"
  /\ h_box' = box_coordinates_from_endpoints(h_start, h_end)
  /\ h_pc' = "box"
  /\ UNCHANGED <<game_vars, h_start, h_end, h_nodes, h_out, h_filter, h_in, h_move, h_again>>

CallPossiblePaths ==
  /\ h_pc = "box"
  /\ h_out' = possible_paths(h_start, h_end, h_nodes, EmptyCache)
  /\ h_pc' = "paths"
  /\ UNCHANGED <<game_vars, h_start, h_end, h_nodes, h_box, h_filter, h_in, h_move, h_again>>

\* A second call in the same game, as get_paths makes it: from any point to any
\* point, the candidates those of the first call that lie in the new box, the
\* new start left out; the cache is as the first call left it.
CallPossiblePathsAgain ==
  /\ h_pc = "paths"
  /\ \E start \in Cells, end \in Cells :
       \E nodes \in {nodes_in_box(box_coordinates_from_endpoints(start, end), h_nodes,
                       [n \in Cells |-> n[1] # start[1] \/ n[2] # start[2]])} :
         h_again' = [start |-> start, end |-> end, nodes |-> nodes,
                     out |-> possible_paths(start, end, nodes, h_out.cache)]
  /\ h_pc' = "again"
  /\ UNCHANGED <<game_vars, h_start, h_end, h_nodes, h_box, h_out, h_filter, h_in,
                 h_move>>

PathsNext == CallBox \/ CallPossiblePaths \/ CallPossiblePathsAgain

SpecPaths == PathsInit /\ [][PathsNext]_vars

(* ------------- direct calls of the pure functions: SpecCalls ----------- *)
\* The arguments of the calls: any two points, any list of distinct points, and
\* extra_filter either not passed or the filter of refine and get_paths, which
\* rejects one point (here h_start).
CallsInit ==
  /\ GameIdle
  /\ h_pc = "input"
  /\ h_start \in Cells
  /\ h_end \in Cells
  /\ h_nodes \in NodeLists(Cells)
  /\ h_filter \in {"none", "not_start"}
  /\ h_box = NoBox
  /\ h_out = NoOut
  /\ h_in = <<>>
  /\ h_move = "none"
  /\ h_again = NoAgain

\* The value passed as extra_filter.
FilterPassed ==
  IF h_filter = "none" THEN Undefined
  ELSE [n \in Cells |-> n[1] # h_start[1] \/ n[2] # h_start[2]]

CallNodesInBox ==
  /\ h_pc = "box"
  /\ h_in' = nodes_in_box(h_box, h_nodes, FilterPassed)
  /\ h_pc' = "in"
  /\ UNCHANGED <<game_vars, h_start, h_end, h_nodes, h_box, h_out, h_filter, h_move, h_again>>

CallMoveDirection ==
  /\ h_pc = "in"
  /\ h_move' = calculate_move_direction(h_end, h_start)
  /\ h_pc' = "move"
  /\ UNCHANGED <<game_vars, h_start, h_end, h_nodes, h_box, h_out, h_filter, h_in, h_again>>

CallsNext == CallBox \/ CallNodesInBox \/ CallMoveDirection

SpecCalls == CallsInit /\ [][CallsNext]_vars

(* ------------------------------ properties ----------------------------- *)
Min(a, b) == IF a <= b THEN a ELSE b
Max(a, b) == IF a >= b THEN a ELSE b

\* p lies in the smallest rectangle that holds a and b.
Between(a, p, b) ==
  /\ Min(a[1], b[1]) <= p[1] /\ p[1] <= Max(a[1], b[1])
  /\ Min(a[2], b[2]) <= p[2] /\ p[2] <= Max(a[2], b[2])

Sign(x) == IF x > 0 THEN 1 ELSE IF x < 0 THEN -1 ELSE 0

\* A direct call of possible_paths has returned its chains.
Returned == h_pc = "paths" /\ h_out.threw = "none"
Chains == Range(h_out.paths)

\* C1: every call of make_move returns one of NORTH, SOUTH, EAST, WEST, TAKE,
\* PASS: it never returns nothing and never throws.
C1_AlwaysAnAction == turn = "host" => result \in Moves

\* C2: when the stash holds no fruit type at the moment a route must be planned,
\* make_move returns PASS.
C2_EmptyStashPasses ==
  (turn = "host" /\ replanned /\ fruits = <<>>) => result = "PASS"

\* C3 as stated: box_coordinates_from_endpoints(p, p) signals an error to its
\* caller instead of returning a box.
C3_SinglePointRejected == (h_pc # "input" /\ h_start = h_end) => h_box.threw

\* C3 as amended: box_coordinates_from_endpoints(p, p) signals nothing and
\* returns the box whose left and right are both p.
C3_SinglePointBox ==
  (h_pc # "input" /\ h_start = h_end) =>
    (~h_box.threw /\ h_box.left = h_start /\ h_box.right = h_start)

\* A call with two equal points that returned a box.
C3_Witness == h_pc = "box" /\ h_start = h_end /\ ~h_box.threw

\* C4: when a turn starts with a plan whose last cell no longer holds fruit
\* while fruit remains elsewhere, make_move replaces the plan by a chain from
\* the robot's position to a newly chosen target that holds fruit, and returns
\* the action derived from that new plan.
C4_StalePlanReplaced ==
  [][(/\ turn = "bot" /\ turn' = "host"
      /\ path # <<>> /\ board[Last(path)] = 0
      /\ \E c \in Cells : board[c] > 0)
     => (/\ replanned'
         /\ result' \in Moves
         /\ plan' # <<>>
         /\ plan'[1] = pos
         /\ Last(plan') = target'
         /\ board[target'] > 0
         /\ path' = next_move(plan', board, pos).path
         /\ result' = next_move(plan', board, pos).move)]_vars

\* C5: after new_game the refinement cache, the plan, the fruit stash, the win
\* counts and the node-to-fruit map are empty, whatever the game before did; and
\* every cache entry a make_move reads was stored since the last new_game, so
\* the first graph construction of a game recomputes every refinement step.
C5_NewGameClearsAll ==
  /\ result = "none" =>
       /\ cache = EmptyCache
       /\ path = <<>>
       /\ fruits = <<>>
       /\ fruit_stash = NoStash
       /\ win_counts = NoWinCounts
       /\ node_to_fruit_mapping = NoMapping
       /\ init = FALSE
  /\ hits \subseteq stored
  /\ stored = DOMAIN cache

\* A game after one that filled the cache: its make_move built the graph, read
\* nothing from the cache and stored what it computed.
C5_Witness ==
  /\ played /\ turn = "host" /\ replanned /\ result \in Moves
  /\ hits = {} /\ stored # {}

\* C6 as stated: in every chain returned by possible_paths, consecutive points
\* differ by exactly one unit in exactly one coordinate.
C6_UnitSteps ==
  Returned =>
    \A ch \in Chains : \A i \in 1..(Len(ch) - 1) :
      manhattan_metric(ch[i], ch[i + 1]) = 1

\* C6 as amended: in every chain returned by possible_paths for candidates
\* inside the box of start and end, consecutive points are different points, any
\* number of units apart in one or both coordinates, and the later one lies in
\* the rectangle from the earlier one to end.
C6_WaypointSteps ==
  Returned =>
    \A ch \in Chains : \A i \in 1..(Len(ch) - 1) :
      /\ ch[i] # ch[i + 1]
      /\ Between(ch[i], ch[i + 1], h_end)

\* A returned chain with two consecutive points more than one unit apart.
C6_Witness ==
  /\ Returned
  /\ \E ch \in Chains : \E i \in 1..(Len(ch) - 1) :
       manhattan_metric(ch[i], ch[i + 1]) > 1

\* C7: in every chain returned by possible_paths, with start different from end
\* and the candidates inside their box, the column changes only in the
\* direction from start.column to end.column and the row only in the direction
\* from start.row to end.row.
C7_NeverReverses ==
  (Returned /\ h_start # h_end) =>
    \A ch \in Chains : \A i \in 1..(Len(ch) - 1) :
      /\ Sign(ch[i + 1][1] - ch[i][1]) \in {0, Sign(h_end[1] - h_start[1])}
      /\ Sign(ch[i + 1][2] - ch[i][2]) \in {0, Sign(h_end[2] - h_start[2])}

\* A chain through two waypoints between a start and an end that differ in both
\* coordinates, the row falling while the column rises.
C7_Witness ==
  /\ Returned
  /\ h_start[1] < h_end[1] /\ h_start[2] > h_end[2]
  /\ \E ch \in Chains : Len(ch) >= 4

\* C8: every chain returned by possible_paths, with start different from end and
\* the candidates inside their box, begins with start and ends with end.
C8_StartToEnd ==
  (Returned /\ h_start # h_end) =>
    \A ch \in Chains : ch[1] = h_start /\ Last(ch) = h_end

\* Chains through waypoints for a candidate list that did not hold end.
C8_Witness ==
  /\ Returned /\ h_start # h_end
  /\ h_end \notin Range(h_nodes)
  /\ Len(h_out.paths) >= 2
  /\ \E ch \in Chains : Len(ch) >= 3

\* The successors of a point in a graph.
Successors(graph, n) == IF ObjHas(graph, n) THEN Range(ObjGet(graph, n)) ELSE {}

\* The maximal chains of a graph from a point, of at most fuel + 1 points.
RECURSIVE MaximalChains(_, _, _)
MaximalChains(graph, n, fuel) ==
  IF Successors(graph, n) = {} THEN {<<n>>}
  ELSE IF fuel = 0 THEN {}
  ELSE UNION {{<<n>> \o ch : ch \in MaximalChains(graph, m, fuel - 1)} :
              m \in Successors(graph, n)}

\* C9: possible_paths returns, each exactly once, the maximal chains of the
\* graph built by construct_restricted_paths that begin at start, and nothing
\* else; for one candidate w other than start and end it returns the single
\* chain <<start, w, end>>.
C9_AllMaximalChains ==
  Returned =>
    /\ Chains = MaximalChains(h_out.graph, h_start, StackDepth)
    /\ Cardinality(Chains) = Len(h_out.paths)
    /\ (Len(h_nodes) = 1 /\ h_nodes[1] \notin {h_start, h_end}) =>
         h_out.paths = <<<<h_start, h_nodes[1], h_end>>>>

\* Several chains of different lengths are returned.
C9_Witness ==
  /\ Returned
  /\ \E c1, c2 \in Chains : Len(c1) < Len(c2)

\* One waypoint strictly inside the box: the single chain through it.
C9_WitnessOneWaypoint ==
  /\ Returned /\ Len(h_nodes) = 1
  /\ h_out.paths = <<<<h_start, h_nodes[1], h_end>>>>
  /\ h_nodes[1] \notin {h_start, h_end}

\* The per-type fruit counts of chain a, taken in the order of the stash from
\* the i-th type on, are greater than those of chain b in the lexicographic
\* order.
RECURSIVE LexGreater(_, _, _)
LexGreater(a, b, i) ==
  IF i > Len(fruits) THEN FALSE
  ELSE LET ca == fruit_count(a, fruits[i], node_to_fruit_mapping)
           cb == fruit_count(b, fruits[i], node_to_fruit_mapping)
       IN ca > cb \/ (ca = cb /\ LexGreater(a, b, i + 1))

\* C10: the chain pick_best_path selects is maximal among the candidates in the
\* lexicographic order on the per-type fruit counts taken in rarity order.
C10_BestIsLexMax ==
  (turn = "host" /\ plan # <<>>) =>
    \A i \in DOMAIN paths : ~LexGreater(paths[i], plan, 1)

\* C11: whenever the candidate chains handed to pick_best_path are at least one,
\* the chain it returns is one of them.
C11_PicksACandidate ==
  (turn = "host" /\ replanned /\ paths # <<>>) =>
    (plan # <<>> /\ \E i \in DOMAIN paths : plan = paths[i])

\* A replanning turn with two candidate chains.
C11_Witness ==
  /\ turn = "host" /\ replanned /\ Len(paths) >= 2
  /\ \E i \in DOMAIN paths : plan = paths[i]

\* The predicate h_filter stands for.
FilterHolds(n) == h_filter = "none" \/ n # h_start

C13_MinimalRectangle ==
  (h_pc # "input" /\ h_start # h_end) =>
    /\ ~h_box.threw
    /\ h_box.left = <<Min(h_start[1], h_end[1]), Min(h_start[2], h_end[2])>>
    /\ h_box.right = <<Max(h_start[1], h_end[1]), Max(h_start[2], h_end[2])>>
    /\ h_box.left[1] <= h_box.right[1] /\ h_box.left[2] <= h_box.right[2]
    /\ box_coordinates_from_endpoints(h_end, h_start) = h_box

\* A box of two points of which neither is a corner of it.
C13_Witness ==
  /\ h_pc = "box"
  /\ h_start[1] < h_end[1] /\ h_start[2] > h_end[2]
  /\ h_box.left \notin {h_start, h_end}

\* C14: calculate_move_direction(target, from) returns EAST or WEST by the
\* columns when they differ, whatever the rows; SOUTH or NORTH by the rows when
\* the columns are equal; and nothing when the points are equal.
C14_ColumnsFirst ==
  (h_pc = "move") =>
    h_move = IF h_end[1] > h_start[1] THEN "EAST"
             ELSE IF h_end[1] < h_start[1] THEN "WEST"
             ELSE IF h_end[2] > h_start[2] THEN "SOUTH"
             ELSE IF h_end[2] < h_start[2] THEN "NORTH"
             ELSE "undefined"

\* A call whose points differ in both coordinates.
C14_Witness ==
  /\ h_pc = "move"
  /\ h_end[1] # h_start[1] /\ h_end[2] # h_start[2]
  /\ h_move \in {"EAST", "WEST"}

\* The candidates of u: the nodes handed to possible_paths and end, as far as
\* they lie in the box from u to end, u itself left out.
CandidatesOf(u) ==
  {n \in Range(h_nodes) \cup {h_end} : n # u /\ Between(u, n, h_end)}

\* C15: in the graph built by construct_restricted_paths for candidates inside
\* the box of start and end that do not contain start, every successor v of a
\* point u lies in the box from u to end and in the box toward end of no other
\* candidate of u.
C15_ImmediateSuccessorsOnly ==
  (h_pc = "paths" /\ h_start \notin Range(h_nodes)) =>
    \A i \in DOMAIN h_out.graph.keys :
      \A v \in Range(h_out.graph.val[i]) :
        /\ Between(h_out.graph.keys[i], v, h_end)
        /\ \A w \in CandidatesOf(h_out.graph.keys[i]) \ {v} :
             ~Between(w, v, h_end)

\* A graph in which a point has a candidate that is not its successor.
C15_Witness ==
  /\ h_pc = "paths" /\ h_start \notin Range(h_nodes)
  /\ \E i \in DOMAIN h_out.graph.keys :
       /\ h_out.graph.val[i] # <<>>
       /\ CandidatesOf(h_out.graph.keys[i]) \ Range(h_out.graph.val[i]) # {}

\* The points reached from the points of S along at most fuel edges.
RECURSIVE ReachedFrom(_, _, _)
ReachedFrom(graph, S, fuel) ==
  IF fuel = 0 THEN {}
  ELSE LET next == UNION {Successors(graph, n) : n \in S}
       IN next \cup ReachedFrom(graph, next, fuel - 1)

\* C16: for any start and end and any candidates inside their box,
\* possible_paths returns (construct_restricted_paths and extract_paths end),
\* and no point of the graph is reached from itself.
C16_TerminatesOnAcyclicGraph ==
  (h_pc = "paths") =>
    /\ h_out.threw = "none"
    /\ \A i \in DOMAIN h_out.graph.keys :
         h_out.graph.keys[i]
           \notin ReachedFrom(h_out.graph, {h_out.graph.keys[i]}, StackDepth)

\* The types of the stash whose win count is least.
LeastWon == {f \in Range(fruits) : \A g \in Range(fruits) : win_counts[f] <= win_counts[g]}

\* The earliest type of the stash among those of least win count.
RarestType ==
  fruits[CHOOSE i \in DOMAIN fruits :
           /\ fruits[i] \in LeastWon
           /\ \A j \in DOMAIN fruits : fruits[j] \in LeastWon => i <= j]

\* C17: on a replan with a stash that is not empty, the target is a known
\* location of the earliest type of least win count in the stash, no known
\* location of that type is closer to the robot, and a plan that was made ends
\* at the target.
C17_RarestTypeClosestLocation ==
  (turn = "host" /\ replanned /\ fruits # <<>>) =>
    /\ target \in Range(fruit_stash[RarestType])
    /\ \A loc \in Range(fruit_stash[RarestType]) :
         manhattan_metric(pos, target) <= manhattan_metric(pos, loc)
    /\ plan # <<>> => Last(plan) = target

\* A replan with two types of the same win count, the target one of two
\* locations of its type at different distances.
C17_Witness ==
  /\ turn = "host" /\ replanned /\ Len(fruits) = 2 /\ plan # <<>>
  /\ win_counts[fruits[1]] = win_counts[fruits[2]]
  /\ \E loc \in Range(fruit_stash[RarestType]) :
       manhattan_metric(pos, target) < manhattan_metric(pos, loc)

\* move is the step from a cell to the neighbour cell that is one closer to to.
StepToward(move, from, to) ==
  /\ move \in {"NORTH", "SOUTH", "EAST", "WEST"}
  /\ manhattan_metric(Step(from, move), to) = manhattan_metric(from, to) - 1

\* What C18 says of a call of next_move on plan p that leaves path q and returns
\* move.
AdvancedAsClaimed(p, q, move) ==
  IF p[1] = pos
  THEN /\ q = Tail(p)
       /\ IF board[pos] > 0 THEN move = "TAKE"
          ELSE q # <<>> /\ StepToward(move, pos, q[1])
  ELSE q = p /\ StepToward(move, pos, p[1])

\* C18: when make_move advances a plan (the plan it kept, or the one it has just
\* made) and the robot is on the plan's head, the head is removed and the action
\* is TAKE if the cell holds fruit, else the step toward the new head; when the
\* robot is elsewhere the plan is unchanged and the action is the step toward
\* the head.
C18_AdvancesThePlan ==
  [][(turn = "bot" /\ turn' = "host")
     => /\ ~replanned' => AdvancedAsClaimed(path, path', result')
        /\ (replanned' /\ plan' # <<>>) => AdvancedAsClaimed(plan', path', result')]_vars

\* The robot has just taken the fruit of a waypoint that is not the last of its
\* plan, which it reached by following the plan.
C18_Witness ==
  /\ turn = "host" /\ ~replanned /\ result = "TAKE" /\ path # <<>>

\* The end point and the candidate list a cache key was made of.
KeyEnd(k) == <<k[1], k[2]>>
KeyNodes(k) == [i \in 1..((Len(k) - 2) \div 2) |-> <<k[2 * i + 1], k[2 * i + 2]>>]

\* C19: a call of possible_paths made with the cache another call has left
\* returns (or fails) as the same call does with an empty cache, the chains and
\* their order the same; it changes and removes no entry of the cache; and
\* every entry is the refinement step of the one end point and candidate list
\* its key is made of.
C19_CacheIsTransparent ==
  (h_pc = "again") =>
    /\ h_again.out.paths
         = possible_paths(h_again.start, h_again.end, h_again.nodes, EmptyCache).paths
    /\ h_again.out.threw
         = possible_paths(h_again.start, h_again.end, h_again.nodes, EmptyCache).threw
    /\ \A k \in DOMAIN h_out.cache :
         k \in DOMAIN h_again.out.cache /\ h_again.out.cache[k] = h_out.cache[k]
    /\ \A k \in DOMAIN h_again.out.cache :
         /\ k = cache_key(KeyEnd(k), KeyNodes(k))
         /\ h_again.out.cache[k]
              = refinement_step_data(KeyNodes(k), refine(KeyEnd(k), KeyNodes(k)))

\* A second call from another start that read an entry the first call had
\* stored and returned several chains.
C19_Witness ==
  /\ h_pc = "again" /\ h_again.start # h_start
  /\ h_again.out.threw = "none" /\ Len(h_again.out.paths) >= 2
  /\ h_again.out.hits \cap DOMAIN h_out.cache # {}

\* C20: when the host applies a move to a neighbour cell that make_move
\* returned, the robot gets exactly one closer to the last point of its plan and
\* stays in the box of the position where the plan was made and that point.
C20_EveryStepApproaches ==
  [][(/\ turn = "host" /\ turn' = "bot" /\ result' = result
      /\ result \in {"NORTH", "SOUTH", "EAST", "WEST"})
     => /\ path # <<>>
        /\ pos' = Step(pos, result)
        /\ manhattan_metric(pos', Last(path)) = manhattan_metric(pos, Last(path)) - 1
        /\ made_at # <<>>
        /\ Between(made_at, pos', Last(path))]_vars

\* The robot is two moves into a plan with a waypoint, on its way around a
\* corner of the box.
C20_Witness ==
  /\ turn = "bot" /\ result \in {"NORTH", "SOUTH"} /\ Len(path) >= 1
  /\ made_at # <<>> /\ made_at[1] # pos[1] /\ made_at[2] # pos[2]
  /\ pos # Last(path)

\* C21: with the host applying every action and nobody else changing the board,
\* a replan that returns an action (the robot is not on the chosen target) is
\* followed by a turn on which the robot is on that target and make_move
\* returns TAKE, leaving the plan empty.  Until then the plan is kept, and the
\* make_move after an emptied plan is a replan.  On the way make_move returns
\* TAKE whenever the robot is on the head of its plan and that cell holds fruit.
C21_ReachesAndTakesTheTarget ==
  /\ (turn = "host" /\ replanned /\ result \in Moves)
       ~> (turn = "host" /\ pos = goal /\ result = "TAKE" /\ path = <<>>)
  /\ [][(turn = "bot" /\ turn' = "host")
        => /\ path # <<>> => (~replanned' /\ goal' = goal)
           /\ path = <<>> => replanned'
           /\ (replanned' /\ result' \in Moves) => goal' = target'
           /\ (~replanned' /\ path[1] = pos /\ board[pos] > 0) => result' = "TAKE"
           /\ (replanned' /\ plan' # <<>> /\ plan'[1] = pos /\ board[pos] > 0)
                => result' = "TAKE"]_vars

\* The robot has followed a plan through a waypoint to its last point, some
\* moves away from where the plan was made, and takes the fruit there.
C21_Witness ==
  /\ turn = "host" /\ ~replanned /\ result = "TAKE" /\ path = <<>>
  /\ pos = goal
  /\ made_at # <<>> /\ manhattan_metric(made_at, pos) >= 2
  /\ \E c \in Cells : /\ c \notin {made_at, pos} /\ Between(made_at, c, pos)
                       /\ level.board[c] > 0 /\ board[c] = 0

====
